---- MODULE Spec2Model ----
(***************************************************************************)
(* Model of the browser-driven response-capture pipeline of the UAR        *)
(* evaluation system: the parallel batch scheduler of BrandConciergeTester *)
(* (testQuestionsParallel / testSingleQuestionWithOwnBrowser), the part of *)
(* UAREvaluationSystem.runAutomatedTesting that drives it, the            *)
(* completion-detection loop and text extraction of captureResponseParallel*)
(* / captureResponse, and the sequential run of testQuestions in batches.  *)
(***************************************************************************)
EXTENDS Integers, Sequences, FiniteSets, TLC

\* ------------------------------------------------------------------ bounds
\* Longest question list handed to the scheduler.
MaxQuestions == 4
\* Largest options.concurrency a direct caller passes (0 stands for "absent").
MaxConcurrency == 2

\* Longest list and largest options.concurrency of the partition-only check.
MaxListLen == 10
MaxBatch == 4

\* Longest question list of a sequential run.
MaxSeqQuestions == 10

\* Most polls during which the scripted page shows 'generating'.
MaxBusyPolls == 3

\* Largest question limit, number of products and number of questions of a
\* product offered to the selection of runAutomatedTesting.
MaxLimit == 6
MaxProducts == 3
MaxPerProduct == 3

\* ------------------------------------------------------- program constants
\* options.concurrency || 3
DefaultConcurrency == 3
\* runAutomatedTesting: concurrency: 3, and the "length > 3" test
PipelineConcurrency == 3
ParallelThreshold == 3
\* const maxAttempts = 60 (captureResponse and captureResponseParallel)
maxAttempts == 60
\* config.execution.batchSize
batchSize == 5
\* if ((i + 1) % 5 === 0) in testQuestions
SaveEvery == 5
\* config.execution.refreshPageBetweenQuestions
refreshPageBetweenQuestions == TRUE
\* config.execution.delayBetweenQuestions (ms)
delayBetweenQuestions == 8000

VARIABLES
  entry,            \* "none" | "direct" (testQuestionsParallel called on its own)
                    \*        | "pipeline" (called by runAutomatedTesting)
  questions,        \* the list handed to testQuestionsParallel (question ids)
  options,          \* [concurrency, limit]; 0 is a falsy / absent option
  mainBrowser,      \* tester.browser: "null" | "open" | "closed"
  mainContext,      \* tester.context: "null" | "open" | "closed"
  mainPage,         \* tester.page:    "null" | "open" | "closed"
  orchPc,           \* position of runAutomatedTesting
  schedPc,          \* position of testQuestionsParallel
  questionsToTest,  \* questions.slice(0, limit)
  batches,          \* the batches built from questionsToTest
  batchIndex,       \* 0-based index of the batch in flight
  tasks,            \* per questionNumber: [q, pc, sess, used] of the task,
                    \* where sess is its own browser: "none" (null) | "open" |
                    \* "closed" | "closeFailed" (close() was called and threw)
                    \* and used is the set of sessions its awaited calls have
                    \* operated on (the task's number for its own browser and
                    \* page, 0 for tester.browser / tester.page)
  allResults,       \* results pushed so far
  successCount,
  failCount

\* State of one response capture (captureResponseParallel / captureResponse).
VARIABLES
  capMode,          \* "parallel" (captureResponseParallel) | "sequential"
  capPc,            \* position in the capture
  attemptCount,
  responseReady,
  page,             \* what the page shows now: [generating, inputEnabled,
                    \* substantial], the three conditions the poll evaluates
  isStillGenerating,\* the poll's local samples
  isInputEnabled,
  capResult,        \* the returned response object, or NoResult
  capError,         \* the awaited call whose exception reached the outer
                    \* catch block, or "none"
  signalsHeld,      \* history: at some instant since the current poll's
                    \* timed wait ended, the page showed all three conditions
  capLayer,         \* history: the extraction method that produced the text
  readThrew,        \* history: a page read of the loop threw and was swallowed
  stableFrom        \* scripted page only: the number of the first poll at
                    \* which the page shows the finished answer (0: no script)

\* State of a sequential run (runAutomatedTesting driving testQuestions), and
\* the result files.
VARIABLES
  seqPc,            \* position of the sequential branch and of testQuestions
  seqI,             \* i, the loop index of testQuestions
  results,          \* the results array of testQuestions
  chatInputSelector,\* tester.chatInputSelector: "null" | "set"
  reloaded,         \* history: the shared page has been reloaded and the chat
                    \* interface awaited since a question was last typed in
  savedFiles,       \* the results files written so far, oldest first:
                    \* [suffix, results, metadata]
  delayed           \* history: the inter-question delay has elapsed since
                    \* the last question attempt ended

\* Inputs of the pure parts, fixed during a behaviour.
VARIABLES
  questionLimit,    \* questionLimit of runAutomatedTesting (0: null)
  productQuestions, \* this.results.questions: per product, its question list
  pageContent       \* the page handed to extractResponseTextParallel

pipeVars == <<entry, questions, options, mainBrowser, mainContext, mainPage,
              orchPc, schedPc,
              questionsToTest, batches, batchIndex, tasks, allResults,
              successCount, failCount>>

capVars == <<capMode, capPc, attemptCount, responseReady, page,
             isStillGenerating, isInputEnabled, capResult, capError,
             signalsHeld, capLayer, readThrew, stableFrom>>

seqVars == <<seqPc, seqI, results, chatInputSelector, reloaded, savedFiles,
             delayed>>

inputVars == <<questionLimit, productQuestions, pageContent>>

vars == <<pipeVars, capVars, seqVars, inputVars>>

\* ---------------------------------------------------------------- helpers
Min(a, b) == IF a < b THEN a ELSE b

\* The id of the i-th question record of the input list.
QuestionId(i) == 100 + i

QuestionList(n) == [i \in 1..n |-> QuestionId(i)]

\* Array.prototype.slice(from, to) on a 0-based array, for 0 <= from.
Slice(s, from, to) ==
  IF from >= Min(to, Len(s)) THEN << >>
  ELSE SubSeq(s, from + 1, Min(to, Len(s)))

\* An option that was not passed (undefined).
Undefined == -1

\* a || b on numbers: 0, like undefined and null, is falsy.
OrElse(a, b) == IF a \in {0, Undefined} THEN b ELSE a

\* The capture variables before any capture has been started.
NoResult == [text |-> [name |-> "none", len |-> 0, tlen |-> 0, gen |-> FALSE,
                       ui |-> FALSE, rec |-> FALSE, adobe |-> FALSE],
             method |-> "none", error |-> FALSE]

CaptureIdle ==
  /\ capMode = "none"
  /\ capPc = "idle"
  /\ attemptCount = 0
  /\ responseReady = FALSE
  /\ page = [generating |-> FALSE, inputEnabled |-> FALSE, substantial |-> FALSE]
  /\ isStillGenerating = FALSE
  /\ isInputEnabled = FALSE
  /\ capResult = NoResult
  /\ capError = "none"
  /\ signalsHeld = FALSE
  /\ capLayer = "none"
  /\ readThrew = FALSE
  /\ stableFrom = 0

\* saveData.metadata of saveResults: totalQuestions: resultsToSave.length,
\* completedAt: new Date().toISOString() (and session and configuration).
Metadata(rs) ==
  [present |-> TRUE, totalQuestions |-> Len(rs), completedAt |-> TRUE]

\* fs.writeJson(outputPath, allResults): the bare array, with no metadata.
NoMetadata == [present |-> FALSE, totalQuestions |-> 0, completedAt |-> FALSE]

\* A results file: test-results-parallel-<time>.json of testQuestionsParallel,
\* test-results-<suffix>.json of saveResults.
File(suffix, rs) ==
  [suffix |-> suffix, results |-> rs,
   metadata |-> IF suffix = "parallel" THEN NoMetadata ELSE Metadata(rs)]

\* The sequential variables before any run has been started.
SequentialIdle ==
  /\ seqPc = "idle"
  /\ seqI = 0
  /\ results = << >>
  /\ chatInputSelector = "null"
  /\ reloaded = FALSE
  /\ savedFiles = << >>
  /\ delayed = FALSE

\* No selection input and an empty page.
InputsIdle ==
  /\ questionLimit = 0
  /\ productQuestions = << >>
  /\ pageContent = [selectors |-> << >>, lines |-> << >>, scanFails |-> FALSE,
                    adobeFails |-> FALSE, fallbackFails |-> FALSE]

\* ------------------------------------------------- testQuestionsParallel
\* const concurrency = options.concurrency || 3
Concurrency == OrElse(options.concurrency, DefaultConcurrency)

\* questions.slice(0, options.limit || questions.length)
Truncate(qs, limit) == Slice(qs, 0, OrElse(limit, Len(qs)))

\* Mutant: the slice ends one element early.
BatchSliceShort(qs, i, c) == Slice(qs, i, i + c - 1)

\* One batch: questionsToTest.slice(i, i + concurrency)
BatchSlice(qs, i, c) == Slice(qs, i, i + c)

\* for (let i = 0; i < questionsToTest.length; i += concurrency) batches.push(...)
RECURSIVE BatchesFrom(_, _, _)
BatchesFrom(qs, c, i) ==
  IF i < Len(qs) THEN <<BatchSlice(qs, i, c)>> \o BatchesFrom(qs, c, i + c)
  ELSE << >>

\* questionNumber of the task at 0-based index idx of 0-based batch b
QuestionNumber(b, idx) == b * Concurrency + idx + 1

\* The question numbers of the tasks of 0-based batch b.
BatchTasks(b) ==
  IF b < Len(batches)
  THEN {QuestionNumber(b, idx) : idx \in 0..(Len(batches[b + 1]) - 1)}
  ELSE {}

Settled(p) == tasks[p].pc \in {"fulfilled", "rejected"}

\* Mutant: Promise.race-like join, resuming on the first settled task.
AnySettled(b) == \E p \in BatchTasks(b) : Settled(p)

\* await Promise.allSettled(batchPromises): resumes once every task has settled.
AllSettled(b) == \A p \in BatchTasks(b) : Settled(p)

\* batch.map(question => this.testSingleQuestionWithOwnBrowser(question, n)):
\* each call runs synchronously up to its first await, chromium.launch().
NewTasks(bs, b, c) ==
  [p \in {b * c + idx + 1 : idx \in 0..(Len(bs[b + 1]) - 1)} |->
     [q |-> bs[b + 1][p - b * c], pc |-> "launch", sess |-> "none",
      used |-> {}]]

\* A success-shaped result (no error field) built by the task.
SuccessResult(q) == [questionId |-> q, error |-> FALSE]

\* Mutant: a rejected entry is logged but not counted.
PushResultUncounted(acc, p) ==
  IF tasks[p].pc = "fulfilled"
  THEN [results |-> Append(acc.results, SuccessResult(tasks[p].q)),
        ok |-> acc.ok + 1, failed |-> acc.failed]
  ELSE acc

\* What the loop over batchResults does with the result at one position.
PushResult(acc, p) ==
  IF tasks[p].pc = "fulfilled"
  THEN [results |-> Append(acc.results, SuccessResult(tasks[p].q)),
        ok |-> acc.ok + 1, failed |-> acc.failed]
  ELSE [results |-> acc.results, ok |-> acc.ok, failed |-> acc.failed + 1]

\* Mutant: the loop stops at the first rejected entry.
RECURSIVE ProcessUntilRejected(_, _, _)
ProcessUntilRejected(acc, from, to) ==
  IF from > to THEN acc
  ELSE IF tasks[from].pc # "fulfilled" THEN PushResult(acc, from)
  ELSE ProcessUntilRejected(PushResult(acc, from), from + 1, to)

\* for (let i = 0; i < batchResults.length; i++) ... for positions from..to
RECURSIVE ProcessBatchResults(_, _, _)
ProcessBatchResults(acc, from, to) ==
  IF from > to THEN acc
  ELSE ProcessBatchResults(PushResult(acc, from), from + 1, to)

\* Entering the body of testQuestionsParallel: truncate, build the batches and,
\* when there is a first batch, start its tasks; otherwise go on to the save.
EnterParallel(qs, opts) ==
  LET c  == OrElse(opts.concurrency, DefaultConcurrency)
      qt == Truncate(qs, opts.limit)
      bs == BatchesFrom(qt, c, 0)
  IN /\ questions' = qs
     /\ options' = opts
     /\ questionsToTest' = qt
     /\ batches' = bs
     /\ batchIndex' = 0
     /\ allResults' = << >>
     /\ successCount' = 0
     /\ failCount' = 0
     /\ IF Len(bs) > 0
        THEN /\ tasks' = NewTasks(bs, 0, c)
             /\ schedPc' = "awaitBatch"
        ELSE /\ tasks' = << >>
             /\ schedPc' = "save"

\* A caller invokes tester.testQuestionsParallel(questions, options) directly.
CallParallel ==
  /\ entry = "none"
  /\ \E n \in 0..MaxQuestions, c \in 0..MaxConcurrency, l \in 0..MaxQuestions :
       EnterParallel(QuestionList(n), [concurrency |-> c, limit |-> l])
  /\ entry' = "direct"
  /\ UNCHANGED <<mainBrowser, mainContext, mainPage, orchPc>>
  /\ UNCHANGED capVars
  /\ UNCHANGED seqVars
  /\ UNCHANGED inputVars

\* The batch has settled: record its results, then pause or leave the loop.
BatchSettled ==
  /\ schedPc = "awaitBatch"
  /\ AllSettled(batchIndex)
  /\ LET first == QuestionNumber(batchIndex, 0)
         last  == QuestionNumber(batchIndex, Len(batches[batchIndex + 1]) - 1)
         acc   == ProcessBatchResults(
                    [results |-> allResults, ok |-> successCount,
                     failed |-> failCount], first, last)
     IN /\ allResults' = acc.results
        /\ successCount' = acc.ok
        /\ failCount' = acc.failed
  /\ schedPc' = IF batchIndex < Len(batches) - 1 THEN "pause" ELSE "save"
  /\ UNCHANGED <<entry, questions, options, mainBrowser, mainContext, mainPage,
                 orchPc, questionsToTest, batches, batchIndex, tasks>>
  /\ UNCHANGED capVars
  /\ UNCHANGED seqVars
  /\ UNCHANGED inputVars

\* The 1000 ms pause is over: batchIndex++ and the next batch's tasks start.
NextBatch ==
  /\ schedPc = "pause"
  /\ batchIndex' = batchIndex + 1
  /\ tasks' = tasks @@ NewTasks(batches, batchIndex + 1, Concurrency)
  /\ schedPc' = "awaitBatch"
  /\ UNCHANGED <<entry, questions, options, mainBrowser, mainContext, mainPage,
                 orchPc, questionsToTest, batches, allResults, successCount,
                 failCount>>
  /\ UNCHANGED capVars
  /\ UNCHANGED seqVars
  /\ UNCHANGED inputVars

\* Both awaits of the save (fs.ensureDir, fs.writeJson of allResults) succeed and
\* allResults is returned, or one throws and testQuestionsParallel rethrows.
SaveParallel ==
  /\ schedPc = "save"
  /\ \E ok \in BOOLEAN :
       /\ schedPc' = IF ok THEN "returned" ELSE "threw"
       /\ savedFiles' = IF ok THEN Append(savedFiles, File("parallel", allResults))
                        ELSE savedFiles
  /\ UNCHANGED <<entry, questions, options, mainBrowser, mainContext, mainPage,
                 orchPc, questionsToTest, batches, batchIndex, tasks,
                 allResults, successCount, failCount>>
  /\ UNCHANGED capVars
  /\ UNCHANGED <<seqPc, seqI, results, chatInputSelector, reloaded, delayed>>
  /\ UNCHANGED inputVars

\* ------------------------------------- testSingleQuestionWithOwnBrowser
\* The awaited steps between the launch and the close, in program order.
TaskSteps == <<"newContext", "newPage", "goto", "findChatInputSelector",
               "waitForFunction", "fill", "press", "captureResponseParallel">>

StepIndex(name) == CHOOSE k \in 1..Len(TaskSteps) : TaskSteps[k] = name

\* After a step that succeeded: the next step, or browser.close() of the
\* success path once the result object is built.
AfterStep(t) ==
  LET k == StepIndex(t.pc)
  IN [t EXCEPT !.pc = IF k < Len(TaskSteps) THEN TaskSteps[k + 1] ELSE "close"]

\* catch (error) { if (browser) { try { await browser.close() } catch {} }
\*                 throw new Error(...) }
\* Mutant: the catch block rethrows without closing the browser.
CatchHandlerNoClose(t) == [t EXCEPT !.pc = "rejected"]

CatchHandler(t) ==
  IF t.sess = "none" THEN [t EXCEPT !.pc = "rejected"]
  ELSE [t EXCEPT !.pc = "catchClose"]

\* Mutant: the calls of the task go to tester.page, as those of testQuestion do.
SharedSession(p) == 0

\* The session the awaited calls of task p operate on: the local browser it
\* launched, the context and page made from it, and the selector found on it.
OwnSession(p) == p

Touch(t, p) == [t EXCEPT !.used = @ \cup {OwnSession(p)}]

TaskUnchanged ==
  /\ UNCHANGED capVars
  /\ UNCHANGED seqVars
  /\ UNCHANGED inputVars
  /\ UNCHANGED <<entry, questions, options, mainBrowser, mainContext, mainPage,
              orchPc, schedPc, questionsToTest, batches, batchIndex,
              allResults, successCount, failCount>>

\* chromium.launch() resolves with a browser, or rejects (browser stays null).
LaunchCompletes(p) ==
  /\ tasks[p].pc = "launch"
  /\ \E ok \in BOOLEAN :
       tasks' = [tasks EXCEPT ![p] =
                   IF ok THEN [@ EXCEPT !.pc = TaskSteps[1], !.sess = "open"]
                   ELSE CatchHandler(@)]
  /\ TaskUnchanged

\* One awaited step returns or throws; findChatInputSelector returning null
\* throws 'Chat input not found' the same way.
StepCompletes(p) ==
  /\ tasks[p].pc \in {TaskSteps[k] : k \in 1..Len(TaskSteps)}
  /\ \E ok \in BOOLEAN :
       tasks' = [tasks EXCEPT ![p] = IF ok THEN AfterStep(Touch(@, p))
                                     ELSE CatchHandler(Touch(@, p))]
  /\ TaskUnchanged

\* await browser.close() of the success path: the result is returned, or the
\* close throws into the catch block.
CloseCompletes(p) ==
  /\ tasks[p].pc = "close"
  /\ \E ok \in BOOLEAN :
       tasks' = [tasks EXCEPT ![p] =
                   IF ok THEN [Touch(@, p) EXCEPT !.pc = "fulfilled",
                                                  !.sess = "closed"]
                   ELSE CatchHandler(Touch(@, p))]
  /\ TaskUnchanged

\* await browser.close() of the catch block: the close error is only logged;
\* either way the task then throws.
CatchCloseCompletes(p) ==
  /\ tasks[p].pc = "catchClose"
  /\ \E ok \in BOOLEAN :
       tasks' = [tasks EXCEPT ![p] =
                   [Touch(@, p) EXCEPT
                      !.pc = "rejected",
                      !.sess = IF ok THEN "closed" ELSE "closeFailed"]]
  /\ TaskUnchanged

TaskStep ==
  \E p \in DOMAIN tasks :
    \/ LaunchCompletes(p)
    \/ StepCompletes(p)
    \/ CloseCompletes(p)
    \/ CatchCloseCompletes(p)

\* ---------------------------------- UAREvaluationSystem.runAutomatedTesting
\* runAutomatedTesting(questionLimit, useParallel) has selected questionsToTest
\* and awaits tester.initialize().  The selected list and the options it will
\* pass are kept in questions / options until the scheduler is entered.
RunAutomatedTesting ==
  /\ entry = "none"
  /\ \E n \in 0..MaxQuestions, l \in 0..MaxQuestions, useParallel \in BOOLEAN :
       /\ questions' = QuestionList(n)
       /\ options' = [concurrency |-> IF useParallel THEN PipelineConcurrency ELSE 0,
                      limit |-> l]
  /\ entry' = "pipeline"
  /\ orchPc' = "initialize"
  /\ UNCHANGED <<mainBrowser, mainContext, mainPage, schedPc, questionsToTest,
                 batches, batchIndex, tasks, allResults, successCount, failCount>>
  /\ UNCHANGED capVars
  /\ UNCHANGED seqVars
  /\ UNCHANGED inputVars

\* BrandConciergeTester.initialize(): launch, newContext, newPage; the first one
\* that throws leaves the later handles null and rethrows.
initialize(failAt) ==
  /\ mainBrowser' = IF failAt = "launch" THEN "null" ELSE "open"
  /\ mainContext' = IF failAt \in {"launch", "newContext"} THEN "null" ELSE "open"
  /\ mainPage' = IF failAt = "none" THEN "open" ELSE "null"

\* if (useParallel && questionsToTest.length > 3)
UseParallelBranch == options.concurrency # 0 /\ Len(questions) > ParallelThreshold

\* initialize() settles.  On success the parallel branch enters
\* testQuestionsParallel(questionsToTest, {concurrency: 3, limit: questionLimit});
\* the sequential branch is not part of this specification.  On failure the
\* catch block of runAutomatedTesting runs the cleanup.
InitializeCompletes ==
  /\ orchPc = "initialize"
  /\ \E failAt \in {"none", "launch", "newContext", "newPage"} :
       /\ initialize(failAt)
       /\ IF failAt # "none"
          THEN /\ orchPc' = "cleanupAfterError"
               /\ UNCHANGED <<questions, options, schedPc, questionsToTest,
                              batches, batchIndex, tasks, allResults,
                              successCount, failCount>>
          ELSE IF UseParallelBranch
          THEN /\ orchPc' = "testing"
               /\ EnterParallel(questions, options)
          ELSE /\ orchPc' = "sequential"
               /\ UNCHANGED <<questions, options, schedPc, questionsToTest,
                              batches, batchIndex, tasks, allResults,
                              successCount, failCount>>
  /\ UNCHANGED entry
  /\ UNCHANGED capVars
  /\ UNCHANGED seqVars
  /\ UNCHANGED inputVars

\* testQuestionsParallel has returned or thrown to runAutomatedTesting.
ParallelReturns ==
  /\ orchPc = "testing"
  /\ schedPc \in {"returned", "threw"}
  /\ orchPc' = IF schedPc = "returned" THEN "cleanup" ELSE "cleanupAfterError"
  /\ UNCHANGED <<entry, questions, options, mainBrowser, mainContext, mainPage,
                 schedPc, questionsToTest, batches, batchIndex, tasks,
                 allResults, successCount, failCount>>
  /\ UNCHANGED capVars
  /\ UNCHANGED seqVars
  /\ UNCHANGED inputVars

\* BrandConciergeTester.cleanup(): page.close(), context.close(), browser.close()
\* in one try block, each only if the handle is set; the first close that
\* throws ends the block, and the error is only logged.
cleanup(failAt) ==
  /\ mainPage' = IF mainPage = "open" /\ failAt # "page" THEN "closed" ELSE mainPage
  /\ mainContext' = IF mainContext = "open" /\ failAt \notin {"page", "context"}
                    THEN "closed" ELSE mainContext
  /\ mainBrowser' = IF mainBrowser = "open" /\ failAt = "none"
                    THEN "closed" ELSE mainBrowser

\* await this.tester.cleanup() on the normal path and in the catch block.
Cleanup ==
  /\ orchPc \in {"cleanup", "cleanupAfterError"}
  /\ \E failAt \in {"none", "page", "context", "browser"} :
       /\ failAt = "page" => mainPage = "open"
       /\ failAt = "context" => mainContext = "open"
       /\ failAt = "browser" => mainBrowser = "open"
       /\ cleanup(failAt)
  /\ orchPc' = IF orchPc = "cleanup" THEN "done" ELSE "failed"
  /\ UNCHANGED <<entry, questions, options, schedPc, questionsToTest, batches,
                 batchIndex, tasks, allResults, successCount, failCount>>
  /\ UNCHANGED capVars
  /\ UNCHANGED seqVars
  /\ UNCHANGED inputVars

\* ------------------------------------------------------------ specification
Init ==
  /\ entry = "none"
  /\ questions = << >>
  /\ options = [concurrency |-> 0, limit |-> 0]
  /\ mainBrowser = "null"
  /\ mainContext = "null"
  /\ mainPage = "null"
  /\ orchPc = "idle"
  /\ schedPc = "idle"
  /\ questionsToTest = << >>
  /\ batches = << >>
  /\ batchIndex = 0
  /\ tasks = << >>
  /\ allResults = << >>
  /\ successCount = 0
  /\ failCount = 0
  /\ CaptureIdle
  /\ SequentialIdle
  /\ InputsIdle

Next ==
  \/ CallParallel
  \/ RunAutomatedTesting
  \/ InitializeCompletes
  \/ TaskStep
  \/ BatchSettled
  \/ NextBatch
  \/ SaveParallel
  \/ ParallelReturns
  \/ Cleanup

Spec == Init /\ [][Next]_vars

\* ------------------------------------------------------------- page texts
\* A text is kept as what the code inspects of it: its length, its length
\* after trim(), and the outcome of the phrase tests (gen: a phrase of
\* isGeneratingMessage occurs; ui: isUIText; rec: the recommendation regex of
\* isValidResponse matches; adobe: containsAdobeRecommendation).
Text(name, len, tlen, gen, ui, rec, adobe) ==
  [name |-> name, len |-> len, tlen |-> tlen, gen |-> gen, ui |-> ui,
   rec |-> rec, adobe |-> adobe]

\* ""
EmptyText == Text("empty", 0, 0, FALSE, FALSE, FALSE, FALSE)
\* "    "
BlankText == Text("blank", 4, 0, FALSE, FALSE, FALSE, FALSE)
\* "Try Adobe Express."
ShortText == Text("short", 18, 18, FALSE, FALSE, TRUE, TRUE)
\* "Generating response from our knowledge base..."
GeneratingText == Text("generating", 46, 46, TRUE, FALSE, FALSE, FALSE)
\* "Tell us what you would like to make today"
UiText == Text("ui", 41, 41, FALSE, TRUE, FALSE, FALSE)
\* "The weather in the mountains was cold all week long."
PlainText == Text("plain", 52, 52, FALSE, FALSE, FALSE, FALSE)
\* "I recommend Adobe Photoshop for editing your photos."
AnswerText == Text("answer", 52, 52, FALSE, FALSE, TRUE, TRUE)
\* "For vector artwork the best choice is Adobe Illustrator, try it today."
AnswerLongText == Text("answerLong", 70, 70, FALSE, FALSE, TRUE, TRUE)
\* "  You could use Lightroom to organise all your pictures.  "
PaddedText == Text("padded", 58, 54, FALSE, FALSE, TRUE, FALSE)
\* "Tell us what you need: Adobe Photoshop is the best tool for photo work"
UiAdobeText == Text("uiAdobe", 70, 70, FALSE, TRUE, TRUE, TRUE)
\* "Please wait, we recommend Adobe Photoshop for this kind of job"
GenAdobeText == Text("genAdobe", 62, 62, TRUE, FALSE, TRUE, TRUE)

\* String.prototype.trim()
Trim(t) == [t EXCEPT !.len = t.tlen]

isGeneratingMessage(t) == t.len > 0 /\ t.gen

isUIText(t) == t.len > 0 /\ t.ui

containsAdobeRecommendation(t) == t.len > 0 /\ t.adobe

isValidResponse(t) ==
  /\ t.len > 0
  /\ ~(Trim(t).len < 30)
  /\ ~isGeneratingMessage(Trim(t))
  /\ ~isUIText(Trim(t))
  /\ t.rec

\* Length of the page's body text: its lines joined by newlines.
RECURSIVE SumLen(_)
SumLen(lines) == IF lines = << >> THEN 0 ELSE Head(lines).len + SumLen(Tail(lines))

BodyLen(lines) == SumLen(lines) + Len(lines) - 1

\* ------------------------------------------------ response text extraction
\* Mutant: the matched elements are scanned from the first to the last.
RECURSIVE FirstValidElement(_, _)
FirstValidElement(els, k) ==
  IF k = 0 THEN EmptyText
  ELSE IF isValidResponse(els[Len(els) - k + 1]) THEN els[Len(els) - k + 1]
  ELSE FirstValidElement(els, k - 1)

\* for (const element of elements.reverse()): the first valid text, scanning
\* from the last matched element to the first.
RECURSIVE LastValidElement(_, _)
LastValidElement(els, k) ==
  IF k = 0 THEN EmptyText
  ELSE IF isValidResponse(els[k]) THEN els[k]
  ELSE LastValidElement(els, k - 1)

\* Method 1: the selectors in listed order; a selector whose query or element
\* read throws is skipped; the first selector that yields a text ends the loop.
RECURSIVE FromSelectors(_, _)
FromSelectors(sels, i) ==
  IF i > Len(sels) THEN EmptyText
  ELSE LET r == IF sels[i].fail THEN EmptyText
                ELSE LastValidElement(sels[i].els, Len(sels[i].els))
       IN IF r.len > 0 THEN r ELSE FromSelectors(sels, i + 1)

\* potentialResponses.reduce((longest, current) =>
\*   current.length > longest.length ? current : longest, '')
RECURSIVE LongestValidLine(_, _, _)
LongestValidLine(lines, k, longest) ==
  IF k > Len(lines) THEN longest
  ELSE LongestValidLine(lines, k + 1,
         IF isValidResponse(Trim(lines[k])) /\ lines[k].len > longest.len
         THEN lines[k] ELSE longest)

\* Method 2, run when the text so far trims to nothing.
FromPageScan(content, sofar) ==
  IF sofar.tlen # 0 \/ content.scanFails THEN sofar
  ELSE LongestValidLine(content.lines, 1, sofar)

\* adobeResponses[0]
RECURSIVE FirstAdobeLine(_, _)
FirstAdobeLine(lines, k) ==
  IF k > Len(lines) THEN EmptyText
  ELSE IF /\ Trim(lines[k]).len > 50
          /\ containsAdobeRecommendation(Trim(lines[k]))
          /\ ~isGeneratingMessage(Trim(lines[k]))
       THEN lines[k]
  ELSE FirstAdobeLine(lines, k + 1)

\* Method 3, run when the text so far trims to nothing.
FromAdobeScan(content, sofar) ==
  IF sofar.tlen # 0 \/ content.adobeFails THEN sofar
  ELSE LET r == FirstAdobeLine(content.lines, 1)
       IN IF r.len > 0 THEN r ELSE sofar

\* `Response capture failed. Page content: ${pageText.substring(0, 200)}...`
CaptureFailedText(lines) ==
  LET n == 39 + Min(200, BodyLen(lines)) + 3
  IN Text("captureFailed", n, n,
          \E k \in 1..Len(lines) : lines[k].gen,
          \E k \in 1..Len(lines) : lines[k].ui,
          \E k \in 1..Len(lines) : lines[k].rec,
          \E k \in 1..Len(lines) : lines[k].adobe)

\* 'Complete response capture failure - check debug screenshots'
CompleteFailureText == Text("completeFailure", 59, 59, FALSE, FALSE, FALSE, FALSE)

\* Mutant: no validation and no fallback, the text found so far is returned.
WithoutFallback(content, t) == t

\* Validation and fallback
WithFallback(content, t) ==
  IF t.tlen = 0 \/ t.len < 20 \/ isGeneratingMessage(t)
  THEN IF content.fallbackFails THEN CompleteFailureText
       ELSE CaptureFailedText(content.lines)
  ELSE t

\* extractResponseTextParallel(page), and the same steps inlined in
\* captureResponse: the three methods, the fallback, then trim().
extractResponseTextParallel(content) ==
  Trim(WithFallback(content,
         FromAdobeScan(content,
           FromPageScan(content, FromSelectors(content.selectors, 1)))))

\* Which of the steps of the extraction produced the text it returns: method
\* 1 (response selectors), method 2 (valid lines of the page), method 3
\* (Adobe lines of the page) or the validation fallback.
ExtractionLayer(content) ==
  LET m1 == FromSelectors(content.selectors, 1)
      m2 == FromPageScan(content, m1)
      m3 == FromAdobeScan(content, m2)
  IN IF WithFallback(content, m3) # m3 THEN "fallback"
     ELSE IF m1.tlen # 0 THEN "selectors"
     ELSE IF m2.tlen # 0 THEN "pageScan"
     ELSE "adobeScan"

\* pageText.substring(0, 500) of the catch block of captureResponse
PagePrefixText(lines) ==
  Text("pagePrefix", Min(500, BodyLen(lines)),
       IF \A k \in 1..Len(lines) : lines[k].tlen = 0 THEN 0
       ELSE Min(500, BodyLen(lines)),
       \E k \in 1..Len(lines) : lines[k].gen,
       \E k \in 1..Len(lines) : lines[k].ui,
       \E k \in 1..Len(lines) : lines[k].rec,
       \E k \in 1..Len(lines) : lines[k].adobe)

\* The page contents offered to the extraction of a capture: what the response
\* selectors match, the lines of the body text, and which body reads throw.
CapturePages ==
  [selectors : {<< >>,
                <<[els |-> <<AnswerText, GeneratingText>>, fail |-> FALSE]>>,
                <<[els |-> <<AnswerText>>, fail |-> TRUE]>>},
   lines : {<<EmptyText>>, <<BlankText>>, <<GeneratingText>>,
            <<UiText, PaddedText>>, <<UiAdobeText>>, <<ShortText, PlainText>>},
   scanFails : BOOLEAN,
   adobeFails : BOOLEAN,
   fallbackFails : BOOLEAN]

\* --------------------------- captureResponseParallel / captureResponse
\* while (!responseReady && attemptCount < maxAttempts): the next timed wait of
\* the loop, or the stability wait after it.
\* Mutant: the loop test ignores responseReady.
LoopHeadIgnoresReady(ready, count) ==
  IF count < maxAttempts THEN "pollWait" ELSE "settleWait"

LoopHead(ready, count) ==
  IF ~ready /\ count < maxAttempts THEN "pollWait" ELSE "settleWait"

\* if (isInputEnabled && !isStillGenerating && hasSubstantialResponse)
ReadyDecision(enabled, generating, substantial) ==
  enabled /\ ~generating /\ substantial

\* Completion as the page shows it at one instant.
AllSignals(p) == p.inputEnabled /\ ~p.generating /\ p.substantial

\* The outer catch block.  captureResponseParallel rethrows ('Response capture
\* failed'); captureResponse first tries to return the page text instead.
OuterCatch(failed) ==
  /\ capError' = failed
  /\ capPc' = IF capMode = "parallel" THEN "threw" ELSE "catchRead"

\* The call: the locals are initialised and the loop is entered.
CaptureStarts ==
  /\ capPc = "idle"
  /\ \E mode \in {"parallel", "sequential"} : capMode' = mode
  /\ \E p \in [generating : BOOLEAN, inputEnabled : BOOLEAN, substantial : BOOLEAN] :
       page' = p
  /\ responseReady' = FALSE
  /\ attemptCount' = 0
  /\ capPc' = LoopHead(FALSE, 0)
  /\ signalsHeld' = FALSE
  /\ readThrew' = FALSE
  /\ UNCHANGED <<isStillGenerating, isInputEnabled, capResult, capError,
                 capLayer>>
  /\ UNCHANGED pipeVars
  /\ UNCHANGED seqVars
  /\ UNCHANGED inputVars

\* A capture on a page that is free to change at any moment.
CaptureCall ==
  /\ CaptureStarts
  /\ stableFrom' = 0

\* The page goes on rendering while the capture waits.
PageChanges ==
  /\ capPc \notin {"idle", "returned", "threw"}
  /\ \E p \in [generating : BOOLEAN, inputEnabled : BOOLEAN, substantial : BOOLEAN] :
       /\ p # page
       /\ page' = p
       /\ signalsHeld' = (signalsHeld \/ AllSignals(p))
  /\ UNCHANGED <<capMode, capPc, attemptCount, responseReady, isStillGenerating,
                 isInputEnabled, capResult, capError, capLayer>>
  /\ UNCHANGED <<readThrew, stableFrom>>
  /\ UNCHANGED pipeVars
  /\ UNCHANGED seqVars
  /\ UNCHANGED inputVars

\* await page.waitForTimeout(2000) at the top of the loop body, outside the
\* inner try: then attemptCount++ and the first read of the poll is issued.
PollWaitCompletes ==
  /\ capPc = "pollWait"
  /\ \E ok \in BOOLEAN :
       IF ok
       THEN /\ attemptCount' = attemptCount + 1
            /\ capPc' = "readText"
            /\ signalsHeld' = AllSignals(page)
            /\ UNCHANGED capError
       ELSE /\ OuterCatch("pollWait")
            /\ UNCHANGED <<attemptCount, signalsHeld>>
  /\ UNCHANGED <<capMode, responseReady, page, isStillGenerating,
                 isInputEnabled, capResult, capLayer>>
  /\ UNCHANGED <<readThrew, stableFrom>>
  /\ UNCHANGED pipeVars
  /\ UNCHANGED seqVars
  /\ UNCHANGED inputVars

\* await page.innerText('body') and the three phrase tests; an exception is
\* swallowed by the inner catch ('Continue waiting').
ReadPageText ==
  /\ capPc = "readText"
  /\ \E ok \in BOOLEAN :
       /\ readThrew' = (readThrew \/ ~ok)
       /\ IF ok
          THEN /\ isStillGenerating' = page.generating
               /\ capPc' = "readInput"
          ELSE /\ capPc' = LoopHead(responseReady, attemptCount)
               /\ UNCHANGED isStillGenerating
  /\ UNCHANGED <<capMode, attemptCount, responseReady, page, isInputEnabled,
                 capResult, capError, signalsHeld, capLayer>>
  /\ UNCHANGED stableFrom
  /\ UNCHANGED pipeVars
  /\ UNCHANGED seqVars
  /\ UNCHANGED inputVars

\* The input-enabled test: page.$$ and page.evaluate (parallel), page.evaluate
\* on the chat input selector (sequential).
ReadInputEnabled ==
  /\ capPc = "readInput"
  /\ \E ok \in BOOLEAN :
       /\ readThrew' = (readThrew \/ ~ok)
       /\ IF ok
          THEN /\ isInputEnabled' = page.inputEnabled
               /\ capPc' = "readSubstance"
          ELSE /\ capPc' = LoopHead(responseReady, attemptCount)
               /\ UNCHANGED isInputEnabled
  /\ UNCHANGED <<capMode, attemptCount, responseReady, page, isStillGenerating,
                 capResult, capError, signalsHeld, capLayer>>
  /\ UNCHANGED stableFrom
  /\ UNCHANGED pipeVars
  /\ UNCHANGED seqVars
  /\ UNCHANGED inputVars

\* The substantial-response test, then the decision and the loop test.
ReadSubstantial ==
  /\ capPc = "readSubstance"
  /\ \E ok \in BOOLEAN :
       /\ readThrew' = (readThrew \/ ~ok)
       /\ IF ok
          THEN LET ready == ReadyDecision(isInputEnabled, isStillGenerating,
                                          page.substantial)
               IN /\ responseReady' = (responseReady \/ ready)
                  /\ capPc' = LoopHead(responseReady \/ ready, attemptCount)
          ELSE /\ capPc' = LoopHead(responseReady, attemptCount)
               /\ UNCHANGED responseReady
  /\ UNCHANGED <<capMode, attemptCount, page, isStillGenerating, isInputEnabled,
                 capResult, capError, signalsHeld, capLayer>>
  /\ UNCHANGED stableFrom
  /\ UNCHANGED pipeVars
  /\ UNCHANGED seqVars
  /\ UNCHANGED inputVars

\* await page.waitForTimeout(2000) after the loop ('Additional wait for
\* stability'), in the outer try only.
SettleWaitCompletes ==
  /\ capPc = "settleWait"
  /\ \E ok \in BOOLEAN :
       IF ok THEN capPc' = "extract" /\ UNCHANGED capError
       ELSE OuterCatch("settleWait")
  /\ UNCHANGED <<capMode, attemptCount, responseReady, page, isStillGenerating,
                 isInputEnabled, capResult, signalsHeld, capLayer>>
  /\ UNCHANGED <<readThrew, stableFrom>>
  /\ UNCHANGED pipeVars
  /\ UNCHANGED seqVars
  /\ UNCHANGED inputVars

\* The extraction on a page with the given content, and the return of
\* { text, capturedAt, method }.
ExtractFrom(content) ==
  /\ capPc = "extract"
  /\ capResult' = [text |-> extractResponseTextParallel(content),
                   method |-> IF capMode = "parallel"
                              THEN "parallel-extraction"
                              ELSE "enhanced-extraction",
                   error |-> FALSE]
  /\ capLayer' = ExtractionLayer(content)
  /\ capPc' = "returned"
  /\ UNCHANGED <<capMode, attemptCount, responseReady, page, isStillGenerating,
                 isInputEnabled, capError, signalsHeld>>
  /\ UNCHANGED <<readThrew, stableFrom>>
  /\ UNCHANGED pipeVars
  /\ UNCHANGED seqVars
  /\ UNCHANGED inputVars

ExtractAndReturn == \E content \in CapturePages : ExtractFrom(content)

\* catch block of captureResponse: screenshot, then page.innerText('body');
\* { text: pageText.substring(0, 500), method: 'fallback-page-text', error },
\* or 'Failed to capture response' is thrown when that read throws too.
CatchRead ==
  /\ capPc = "catchRead"
  /\ \/ /\ \E content \in CapturePages :
             capResult' = [text |-> PagePrefixText(content.lines),
                           method |-> "fallback-page-text", error |-> TRUE]
        /\ capPc' = "returned"
     \/ /\ capPc' = "threw"
        /\ UNCHANGED capResult
  /\ UNCHANGED <<capMode, attemptCount, responseReady, page, isStillGenerating,
                 isInputEnabled, capError, signalsHeld, capLayer>>
  /\ UNCHANGED <<readThrew, stableFrom>>
  /\ UNCHANGED pipeVars
  /\ UNCHANGED seqVars
  /\ UNCHANGED inputVars

InitCapture == Init

NextCapture ==
  \/ CaptureCall
  \/ PageChanges
  \/ PollWaitCompletes
  \/ ReadPageText
  \/ ReadInputEnabled
  \/ ReadSubstantial
  \/ SettleWaitCompletes
  \/ ExtractAndReturn
  \/ CatchRead

SpecCapture == InitCapture /\ [][NextCapture]_vars

\* ------------------------------------------- capture on a scripted page
\* What the scripted page shows during poll n: 'generating' text during the
\* polls before stableFrom, then the finished answer with the input enabled.
ScriptPages(n) ==
  IF n < stableFrom
  THEN {p \in [generating : BOOLEAN, inputEnabled : BOOLEAN,
               substantial : BOOLEAN] : p.generating}
  ELSE {[generating |-> FALSE, inputEnabled |-> TRUE, substantial |-> TRUE]}

\* A capture on a page that generates during k polls and is finished after.
ScriptedCall ==
  /\ CaptureStarts
  /\ \E k \in 0..MaxBusyPolls : stableFrom' = k + 1

\* During the timed wait the page moves on to what it shows at the next poll.
ScriptedPageChanges ==
  /\ capPc = "pollWait"
  /\ page \notin ScriptPages(attemptCount + 1)
  /\ \E p \in ScriptPages(attemptCount + 1) :
       /\ page' = p
       /\ signalsHeld' = (signalsHeld \/ AllSignals(p))
  /\ UNCHANGED <<capMode, capPc, attemptCount, responseReady, isStillGenerating,
                 isInputEnabled, capResult, capError, capLayer>>
  /\ UNCHANGED <<readThrew, stableFrom>>
  /\ UNCHANGED pipeVars
  /\ UNCHANGED seqVars
  /\ UNCHANGED inputVars

\* The timed wait ends once the page shows what the script says.
ScriptedPollWaitCompletes ==
  /\ page \in ScriptPages(attemptCount + 1)
  /\ PollWaitCompletes

NextScripted ==
  \/ ScriptedCall
  \/ ScriptedPageChanges
  \/ ScriptedPollWaitCompletes
  \/ ReadPageText
  \/ ReadInputEnabled
  \/ ReadSubstantial
  \/ SettleWaitCompletes
  \/ ExtractAndReturn
  \/ CatchRead

SpecScripted == Init /\ [][NextScripted]_vars

\* ------------------------------------------------- extraction on its own
\* What one response selector can match: the texts of the matched elements in
\* document order, oldest first.
ElementLists ==
  {<< >>, <<GeneratingText>>, <<AnswerText>>, <<AnswerText, AnswerLongText>>,
   <<AnswerLongText, UiText>>, <<PaddedText, ShortText>>}

\* One response selector on the page: the elements it matches, and whether
\* its query or an element read throws before a valid text has been found.
SelectorMatches == [els : ElementLists, fail : BOOLEAN]

\* The pages offered to the extraction on its own: what the first response
\* selectors of the list match, the lines of the body text, and which of the
\* three later body reads throw.
ExtractPages ==
  [selectors : {<< >>} \cup {<<a>> : a \in SelectorMatches}
                 \cup {<<a, b>> : a \in SelectorMatches, b \in SelectorMatches},
   lines : {<<EmptyText>>, <<GeneratingText>>, <<UiText, PaddedText>>,
            <<AnswerText, AnswerLongText>>, <<AnswerLongText, AnswerText>>,
            <<UiAdobeText>>, <<ShortText, PlainText>>,
            <<GenAdobeText, UiAdobeText, AnswerText>>},
   scanFails : BOOLEAN,
   adobeFails : BOOLEAN,
   fallbackFails : BOOLEAN]

\* The extraction is about to run, in either mode, on one of the pages.
InitExtract ==
  /\ entry = "none"
  /\ questions = << >>
  /\ options = [concurrency |-> 0, limit |-> 0]
  /\ mainBrowser = "null"
  /\ mainContext = "null"
  /\ mainPage = "null"
  /\ orchPc = "idle"
  /\ schedPc = "idle"
  /\ questionsToTest = << >>
  /\ batches = << >>
  /\ batchIndex = 0
  /\ tasks = << >>
  /\ allResults = << >>
  /\ successCount = 0
  /\ failCount = 0
  /\ capMode \in {"parallel", "sequential"}
  /\ capPc = "extract"
  /\ attemptCount = 0
  /\ responseReady = FALSE
  /\ page = [generating |-> FALSE, inputEnabled |-> FALSE, substantial |-> FALSE]
  /\ isStillGenerating = FALSE
  /\ isInputEnabled = FALSE
  /\ capResult = NoResult
  /\ capError = "none"
  /\ signalsHeld = FALSE
  /\ capLayer = "none"
  /\ readThrew = FALSE
  /\ stableFrom = 0
  /\ SequentialIdle
  /\ questionLimit = 0
  /\ productQuestions = << >>
  /\ pageContent \in ExtractPages

ExtractPage == ExtractFrom(pageContent)

SpecExtract == InitExtract /\ [][ExtractPage]_vars

\* ------------------------ sequential branch of runAutomatedTesting, testQuestions
\* The error-shaped result built by the catch blocks of testQuestions and
\* testQuestion.
ErrorResult(q) == [questionId |-> q, error |-> TRUE]

\* const batch = batches[i] of the orchestrator: the list testQuestions is on.
SeqBatch == batches[batchIndex + 1]

\* The first await of iteration i of the loop of testQuestions: the reload
\* (i > 0 && config.execution.refreshPageBetweenQuestions) or testQuestion.
IterationHead(i) ==
  IF i > 0 /\ refreshPageBetweenQuestions THEN "reload" ELSE "testQuestion"

\* Mutant: the batch file holds the results of the batch only.
BatchCheckpointOnly(all, batchResults) == batchResults

\* saveResults(allResults, `batch-${i + 1}`): the list the orchestrator writes.
BatchCheckpoint(all, batchResults) == all

SeqUnchanged ==
  /\ UNCHANGED <<entry, questions, options, mainBrowser, mainContext, mainPage,
                 schedPc, questionsToTest, tasks, successCount, failCount>>
  /\ UNCHANGED capVars
  /\ UNCHANGED inputVars

\* runAutomatedTesting(questionLimit, useParallel) called with a selection and
\* a flag that take the sequential branch; it awaits tester.initialize().
RunAutomatedTestingSequential ==
  /\ entry = "none"
  /\ \E n \in 0..MaxSeqQuestions, useParallel \in BOOLEAN :
       /\ ~(useParallel /\ n > ParallelThreshold)
       /\ questions' = QuestionList(n)
       /\ options' = [concurrency |-> IF useParallel THEN PipelineConcurrency ELSE 0,
                      limit |-> 0]
  /\ entry' = "pipeline"
  /\ orchPc' = "initialize"
  /\ UNCHANGED <<mainBrowser, mainContext, mainPage, schedPc, questionsToTest,
                 batches, batchIndex, tasks, allResults, successCount, failCount>>
  /\ UNCHANGED capVars
  /\ UNCHANGED seqVars
  /\ UNCHANGED inputVars

\* await this.tester.navigateToSite() settles.  On success the batches are
\* built and testQuestions(batches[0]) runs up to its first await; with no
\* batch the loop is skipped.  On failure the catch block runs the cleanup.
NavigateCompletes ==
  /\ orchPc = "sequential"
  /\ seqPc = "idle"
  /\ \E ok \in BOOLEAN :
       IF ok
       THEN LET bs == BatchesFrom(questions, batchSize, 0)
            IN /\ chatInputSelector' = "set"
               /\ batches' = bs
               /\ batchIndex' = 0
               /\ allResults' = << >>
               /\ results' = << >>
               /\ seqI' = 0
               /\ IF Len(bs) > 0
                  THEN seqPc' = IterationHead(0) /\ UNCHANGED orchPc
                  ELSE seqPc' = "finished" /\ orchPc' = "cleanup"
       ELSE /\ seqPc' = "threw"
            /\ orchPc' = "cleanupAfterError"
            /\ UNCHANGED <<chatInputSelector, batches, batchIndex, allResults,
                           results, seqI>>
  /\ UNCHANGED <<reloaded, savedFiles, delayed>>
  /\ SeqUnchanged

\* The end of iteration seqI with r the results array: the next iteration, or
\* `return results` and allResults.push(...batchResults) in the orchestrator,
\* which then awaits saveResults.
Continue(r) ==
  /\ results' = r
  /\ seqI' = seqI + 1
  /\ IF seqI + 1 < Len(SeqBatch)
     THEN /\ seqPc' = IterationHead(seqI + 1)
          /\ UNCHANGED allResults
     ELSE /\ seqPc' = "batchSave"
          /\ allResults' = allResults \o r

\* catch (error) { results.push(errorResult); await takeDebugScreenshot(); continue }
CatchIteration == Continue(Append(results, ErrorResult(SeqBatch[seqI + 1])))

\* await this.page.reload({ waitUntil: 'networkidle' })
ReloadCompletes ==
  /\ seqPc = "reload"
  /\ \E ok \in BOOLEAN :
       IF ok
       THEN /\ seqPc' = "waitForChatInterface"
            /\ UNCHANGED <<seqI, results, allResults, delayed>>
       ELSE /\ CatchIteration
            /\ delayed' = FALSE
  /\ UNCHANGED <<orchPc, batches, batchIndex, chatInputSelector, reloaded,
                 savedFiles>>
  /\ SeqUnchanged

\* await this.waitForChatInterface(): a selector is found and the input-ready
\* wait is done, or 'Chat interface not found' is thrown.
WaitForChatInterfaceCompletes ==
  /\ seqPc = "waitForChatInterface"
  /\ \E ok \in BOOLEAN :
       IF ok
       THEN /\ seqPc' = "testQuestion"
            /\ chatInputSelector' = "set"
            /\ reloaded' = TRUE
            /\ UNCHANGED <<seqI, results, allResults, delayed>>
       ELSE /\ CatchIteration
            /\ delayed' = FALSE
            /\ UNCHANGED <<chatInputSelector, reloaded>>
  /\ UNCHANGED <<orchPc, batches, batchIndex, savedFiles>>
  /\ SeqUnchanged

\* await this.testQuestion(question): the question is typed into the shared
\* page, and a success- or error-shaped result is returned (testQuestion
\* catches its own errors) and pushed; then the intermediate save is due or
\* the iteration ends.  The success path of testQuestion ends with the wait
\* of config.execution.delayBetweenQuestions; its catch block has no wait.
TestQuestionCompletes ==
  /\ seqPc = "testQuestion"
  /\ \E ok \in BOOLEAN :
       LET q == SeqBatch[seqI + 1]
           r == Append(results, IF ok THEN SuccessResult(q) ELSE ErrorResult(q))
       IN /\ delayed' = (ok /\ delayBetweenQuestions > 0)
          /\ IF (seqI + 1) % SaveEvery = 0
             THEN /\ seqPc' = "intermediateSave"
                  /\ results' = r
                  /\ UNCHANGED <<seqI, allResults>>
             ELSE Continue(r)
  /\ reloaded' = FALSE
  /\ UNCHANGED <<orchPc, batches, batchIndex, chatInputSelector, savedFiles>>
  /\ SeqUnchanged

\* await this.saveResults(results, `intermediate-${i + 1}`) inside the try of
\* the iteration: a failed write is caught like a failed question.
IntermediateSaveCompletes ==
  /\ seqPc = "intermediateSave"
  /\ \E ok \in BOOLEAN :
       IF ok
       THEN /\ savedFiles' = Append(savedFiles, File("intermediate", results))
            /\ Continue(results)
       ELSE /\ CatchIteration
            /\ UNCHANGED savedFiles
  /\ UNCHANGED <<orchPc, batches, batchIndex, chatInputSelector, reloaded,
                 delayed>>
  /\ SeqUnchanged

\* await this.tester.saveResults(allResults, `batch-${i + 1}`) in the
\* orchestrator: then the pause, or the end of the loop and the cleanup; a
\* failed write goes to the catch block of runAutomatedTesting.
BatchSaveCompletes ==
  /\ seqPc = "batchSave"
  /\ \E ok \in BOOLEAN :
       IF ok
       THEN /\ savedFiles' = Append(savedFiles,
                               File("batch", BatchCheckpoint(allResults, results)))
            /\ IF batchIndex < Len(batches) - 1
               THEN seqPc' = "pause" /\ UNCHANGED orchPc
               ELSE seqPc' = "finished" /\ orchPc' = "cleanup"
       ELSE /\ seqPc' = "threw"
            /\ orchPc' = "cleanupAfterError"
            /\ UNCHANGED savedFiles
  /\ UNCHANGED <<batches, batchIndex, allResults, seqI, results,
                 chatInputSelector, reloaded, delayed>>
  /\ SeqUnchanged

\* The 5000 ms pause is over: i++ in the orchestrator and testQuestions of
\* the next batch runs up to its first await.
PauseCompletes ==
  /\ seqPc = "pause"
  /\ batchIndex' = batchIndex + 1
  /\ results' = << >>
  /\ seqI' = 0
  /\ seqPc' = IterationHead(0)
  /\ UNCHANGED <<orchPc, batches, allResults, chatInputSelector, reloaded,
                 savedFiles, delayed>>
  /\ SeqUnchanged

NextSequential ==
  \/ RunAutomatedTestingSequential
  \/ InitializeCompletes
  \/ NavigateCompletes
  \/ ReloadCompletes
  \/ WaitForChatInterfaceCompletes
  \/ TestQuestionCompletes
  \/ IntermediateSaveCompletes
  \/ BatchSaveCompletes
  \/ PauseCompletes
  \/ Cleanup

SpecSequential == Init /\ [][NextSequential]_vars

\* Partition only: the pure part of testQuestionsParallel (truncation and batch
\* construction) applied to every input of the bounded sets.
InitPartition ==
  /\ entry = "none"
  /\ questions \in {QuestionList(n) : n \in 0..MaxListLen}
  /\ options \in [concurrency : 0..MaxBatch,
                  limit : {Undefined} \cup 0..(MaxListLen + 1)]
  /\ mainBrowser = "null"
  /\ mainContext = "null"
  /\ mainPage = "null"
  /\ orchPc = "idle"
  /\ schedPc = "idle"
  /\ questionsToTest = << >>
  /\ batches = << >>
  /\ batchIndex = 0
  /\ tasks = << >>
  /\ allResults = << >>
  /\ successCount = 0
  /\ failCount = 0
  /\ CaptureIdle
  /\ SequentialIdle
  /\ InputsIdle

Partition ==
  /\ schedPc = "idle"
  /\ questionsToTest' = Truncate(questions, options.limit)
  /\ batches' = BatchesFrom(Truncate(questions, options.limit), Concurrency, 0)
  /\ schedPc' = "partitioned"
  /\ UNCHANGED <<entry, questions, options, mainBrowser, mainContext, mainPage,
                 orchPc, batchIndex, tasks, allResults, successCount, failCount>>
  /\ UNCHANGED capVars
  /\ UNCHANGED seqVars
  /\ UNCHANGED inputVars

SpecPartition == InitPartition /\ [][Partition]_vars

\* ------------------------- question selection of runAutomatedTesting
\* The question records of product i (1-based here, i - 1 in the code) when
\* it has n of them.
ProductQuestions(i, n) == [j \in 1..n |-> 100 * i + j]

\* Math.max(1, Math.floor(questionLimit / this.results.questions.length))
questionsPerProduct(limit, products) ==
  IF limit \div products > 1 THEN limit \div products ELSE 1

\* questionLimit % this.results.questions.length
remainder(limit, products) == limit % products

\* questionsPerProduct + (i < remainder ? 1 : 0), for the 0-based index i
questionsFromThisProduct(limit, products, i) ==
  questionsPerProduct(limit, products)
    + (IF i < remainder(limit, products) THEN 1 ELSE 0)

\* The loop over the products from the 0-based index i on:
\* questionsToTest.push(...productQuestions.slice(0, questionsFromThisProduct))
RECURSIVE SelectFrom(_, _, _)
SelectFrom(pq, limit, i) ==
  IF i >= Len(pq) THEN << >>
  ELSE Slice(pq[i + 1], 0, questionsFromThisProduct(limit, Len(pq), i))
         \o SelectFrom(pq, limit, i + 1)

\* this.results.questions.flatMap(p => p.questions)
RECURSIVE AllQuestions(_)
AllQuestions(pq) ==
  IF pq = << >> THEN << >> ELSE Head(pq) \o AllQuestions(Tail(pq))

\* if (questionLimit) { ... } else { ... }: the list questionsToTest
SelectQuestions(limit, pq) ==
  IF limit = 0 THEN AllQuestions(pq) ELSE SelectFrom(pq, limit, 0)

\* runAutomatedTesting is about to be called with a limit (0: none) on the
\* generated questions of one to MaxProducts products.
InitSelect ==
  /\ entry = "none"
  /\ questions = << >>
  /\ options = [concurrency |-> 0, limit |-> 0]
  /\ mainBrowser = "null"
  /\ mainContext = "null"
  /\ mainPage = "null"
  /\ orchPc = "idle"
  /\ schedPc = "idle"
  /\ questionsToTest = << >>
  /\ batches = << >>
  /\ batchIndex = 0
  /\ tasks = << >>
  /\ allResults = << >>
  /\ successCount = 0
  /\ failCount = 0
  /\ CaptureIdle
  /\ SequentialIdle
  /\ questionLimit \in 0..MaxLimit
  /\ \E products \in 1..MaxProducts :
       \E sizes \in [1..products -> 0..MaxPerProduct] :
         productQuestions = [i \in 1..products |-> ProductQuestions(i, sizes[i])]
  /\ pageContent = [selectors |-> << >>, lines |-> << >>, scanFails |-> FALSE,
                    adobeFails |-> FALSE, fallbackFails |-> FALSE]

\* The selection is made and tester.initialize() is awaited.
Select ==
  /\ entry = "none"
  /\ questions' = SelectQuestions(questionLimit, productQuestions)
  /\ options' = [concurrency |-> 0, limit |-> questionLimit]
  /\ entry' = "pipeline"
  /\ orchPc' = "initialize"
  /\ UNCHANGED <<mainBrowser, mainContext, mainPage, schedPc, questionsToTest,
                 batches, batchIndex, tasks, allResults, successCount, failCount>>
  /\ UNCHANGED capVars
  /\ UNCHANGED seqVars
  /\ UNCHANGED inputVars

SpecSelect == InitSelect /\ [][Select]_vars

\* ------------------------------------------------------------------ claims
RECURSIVE Flatten(_)
Flatten(ss) == IF ss = << >> THEN << >> ELSE Head(ss) \o Flatten(Tail(ss))

\* 0-based batch of the task with question number p
BatchOf(p) == (p - 1) \div Concurrency

Returned == schedPc = "returned"

\* Sessions launched and not closed: the browser of initialize() and the
\* browsers of the tasks.
OpenSessions ==
  Cardinality({p \in DOMAIN tasks : tasks[p].sess = "open"})
    + (IF mainBrowser = "open" THEN 1 ELSE 0)

\* C1: the list returned by testQuestionsParallel has exactly one entry per
\* tested question, whatever the outcomes of the tasks.
C1_NoSilentDrops ==
  Returned => Len(allResults) = Len(questionsToTest)

\* C2: with concurrency > 1, the i-th element of the returned list carries the
\* id of the i-th tested question, for every pattern of task failures.
C2_OrderPreserved ==
  (Returned /\ Concurrency > 1) =>
    \A i \in 1..Len(allResults) :
      /\ i <= Len(questionsToTest)
      /\ allResults[i].questionId = questionsToTest[i]

\* C3: in a pipeline run the sessions open at any moment, the browser of
\* tester.initialize() included, never exceed the concurrency.
C3_ConcurrencyCeiling ==
  entry = "pipeline" => OpenSessions <= Concurrency

\* C4: the batches are consecutive slices of the truncated list: there are
\* ceil(N / concurrency) of them, all of size concurrency except the last,
\* which holds 1..concurrency questions, and their concatenation is the list.
C4_Partition ==
  schedPc # "idle" =>
    LET n  == Len(questionsToTest)
        c  == Concurrency
        nb == Len(batches)
    IN /\ nb = (n + c - 1) \div c
       /\ \A k \in 1..nb :
            IF k < nb THEN Len(batches[k]) = c ELSE Len(batches[k]) \in 1..c
       /\ Flatten(batches) = questionsToTest

C4_Witness ==
  /\ schedPc # "idle"
  /\ Len(questionsToTest) = 10
  /\ Concurrency = 3
  /\ [k \in 1..Len(batches) |-> Len(batches[k])] = <<3, 3, 3, 1>>

\* C5: while any task of a batch exists (its launch has been issued), every
\* task of every earlier batch has settled and holds no open session.
C5_BatchBarrier ==
  \A p \in DOMAIN tasks : \A q \in DOMAIN tasks :
    BatchOf(q) < BatchOf(p) => (Settled(q) /\ tasks[q].sess # "open")

C5_Witness ==
  \E p \in DOMAIN tasks : \E q \in DOMAIN tasks :
    /\ BatchOf(q) < BatchOf(p)
    /\ tasks[p].sess = "open"
    /\ tasks[q].pc = "rejected"
    /\ Concurrency > 1

\* C6: a settled task holds no open session: a fulfilled task has closed its
\* browser, a rejected task either never got one (the launch failed) or has
\* run browser.close() on it in the catch block (closed, unless that close
\* itself threw); once the scheduler has finished no task session is open.
C6_SessionClosedOnEveryPath ==
  /\ \A p \in DOMAIN tasks :
       /\ tasks[p].pc = "fulfilled" => tasks[p].sess = "closed"
       /\ tasks[p].pc = "rejected" =>
            tasks[p].sess \in {"none", "closed", "closeFailed"}
  /\ schedPc \in {"returned", "threw"} =>
       \A p \in DOMAIN tasks : tasks[p].sess # "open"

C6_Witness ==
  /\ Returned
  /\ \E p \in DOMAIN tasks : tasks[p].pc = "rejected" /\ tasks[p].sess = "closed"
  /\ \E p \in DOMAIN tasks : tasks[p].pc = "fulfilled"

\* C7: a task that met a failure never raises it to the scheduler: no task
\* settles as rejected.
C7_FailuresNeverPropagate ==
  \A p \in DOMAIN tasks : tasks[p].pc # "rejected"

\* C8: once a batch has been processed every one of its tasks has settled and
\* every fulfilled one has its result in allResults, whatever its siblings
\* did; when the scheduler returns, every tested question had its task.
C8_SiblingsIndependent ==
  /\ schedPc \in {"pause", "save", "returned", "threw"} =>
       \A p \in DOMAIN tasks :
         /\ Settled(p)
         /\ tasks[p].pc = "fulfilled" =>
              \E i \in 1..Len(allResults) : allResults[i].questionId = tasks[p].q
  /\ Returned =>
       /\ DOMAIN tasks = 1..Len(questionsToTest)
       /\ \A p \in DOMAIN tasks : tasks[p].q = questionsToTest[p]

C8_Witness ==
  /\ Returned
  /\ Len(batches) > 1
  /\ \A p \in BatchTasks(0) : tasks[p].pc = "rejected"
  /\ \E p \in DOMAIN tasks : \E q \in DOMAIN tasks :
       /\ p < q
       /\ BatchOf(p) = BatchOf(q)
       /\ tasks[p].pc = "rejected"
       /\ tasks[q].pc = "fulfilled"
       /\ \E i \in 1..Len(allResults) : allResults[i].questionId = tasks[q].q

CaptureFinished == capPc \in {"returned", "threw"}

\* C9: the polling loop never runs more than maxAttempts polls, and a capture
\* that never saw the three signals together has run exactly maxAttempts
\* polls, then the extraction, and has returned a non-empty text.
C9_TimeoutStillYieldsResult ==
  /\ attemptCount <= maxAttempts
  /\ (CaptureFinished /\ ~responseReady) =>
       /\ attemptCount = maxAttempts
       /\ capPc = "returned"
       /\ capResult.method \in {"parallel-extraction", "enhanced-extraction"}
       /\ capResult.text.len > 0

\* C10: no exception raised by a page operation during the wait reaches the
\* caller of the capture: the polling loop is only ever left by its own test,
\* ready or not ready.
C10_DetectionNeverAborts ==
  ~(capPc = "threw" /\ capError = "pollWait")

\* C11: the detector has reported ready only if, at some instant of the poll
\* that reported it, the page showed input enabled, not generating and a
\* substantial response all at once.
C11_SignalsSimultaneous ==
  responseReady => signalsHeld

FallbackNames == {"captureFailed", "completeFailure"}

Extracted ==
  /\ capPc = "returned"
  /\ capResult.method \in {"parallel-extraction", "enhanced-extraction"}

\* C12: the extraction never throws and the text it returns is never empty:
\* it is trimmed, and it is either one of the two marked fallback strings or
\* a text of at least 20 characters that is not a generating message.  The
\* only exceptions that ever reach the outer catch come from the timed waits
\* before the extraction.
C12_ExtractorTotal ==
  /\ capError \in {"none", "pollWait", "settleWait"}
  /\ Extracted =>
       /\ capError = "none"
       /\ capResult.text.len > 0
       /\ capResult.text.tlen = capResult.text.len
       /\ \/ capResult.text.name \in FallbackNames
          \/ capResult.text.len >= 20 /\ ~isGeneratingMessage(capResult.text)

C12_Witness ==
  /\ Extracted
  /\ capMode = "sequential"
  /\ capResult.text = CompleteFailureText

\* The ids of the results in a list.
ResultIds(rs) == {rs[k].questionId : k \in 1..Len(rs)}

LastFile == savedFiles[Len(savedFiles)]

\* testQuestions has just returned its results array to the orchestrator.
TestQuestionsReturned == seqPc = "batchSave"

\* C13: the list testQuestions returns holds exactly one result per question
\* it was given, in the order given, whatever the outcome of the reloads, the
\* interface waits, the questions and the intermediate saves.
C13_OneResultPerQuestion ==
  TestQuestionsReturned =>
    /\ Len(results) = Len(SeqBatch)
    /\ \A k \in 1..Len(results) :
         k <= Len(SeqBatch) => results[k].questionId = SeqBatch[k]

\* C14: whenever testQuestionsParallel starts a batch after the first, the
\* file written last holds the results of all the batches before it.
C14_CheckpointPerBatch ==
  (schedPc = "awaitBatch" /\ batchIndex > 0) =>
    /\ savedFiles # << >>
    /\ LastFile.results = allResults

\* Questions of the sequential run processed once the orchestrator has saved
\* the batch in hand.
Processed == Len(Flatten(SubSeq(batches, 1, batchIndex + 1)))

BatchSaved == seqPc \in {"pause", "finished"} /\ batches # << >>

\* C15: in a sequential run, once a 5th, 10th, ... question has been
\* processed and before the run goes on to the next question or ends
\* normally, the file written last holds a result of every question
\* processed so far in the run.
C15_CheckpointEveryFifth ==
  (BatchSaved /\ Processed % SaveEvery = 0) =>
    /\ savedFiles # << >>
    /\ \A j \in 1..Processed : questions[j] \in ResultIds(LastFile.results)

\* The 5th question of the first batch failed before it was asked (the
\* reload or the interface wait threw), so that testQuestions wrote no
\* intermediate file, and the 10th question has been processed too.
C15_Witness ==
  /\ BatchSaved
  /\ Processed = 2 * SaveEvery
  /\ Len(allResults) = 2 * SaveEvery
  /\ allResults[SaveEvery].error
  /\ \A k \in 1..Len(savedFiles) :
       savedFiles[k].suffix = "intermediate" =>
         questions[1] \notin ResultIds(savedFiles[k].results)
  /\ \E k \in 1..Len(savedFiles) : savedFiles[k].suffix = "intermediate"

\* C16: in a sequential run every question but the first is typed into a
\* page that has been reloaded, and whose chat interface has been awaited
\* again, since the previous question was typed.
C16_ReloadBetweenQuestions ==
  (seqPc = "testQuestion" /\ (batchIndex > 0 \/ seqI > 0)) => reloaded

\* C17: a parallel task whose page.fill() has settled either goes on to
\* submit the question or, when the fill threw, to a further injection
\* method: a throwing fill alone never fails the question.
C17_InjectionFallsThrough ==
  [][\A p \in DOMAIN tasks :
       (tasks[p].pc = "fill" /\ tasks'[p].pc # "fill") =>
          tasks'[p].pc \in {"press", "keyboardType", "assignValue"}]_vars

\* C18: the method field of a returned response names the extraction step
\* that produced its text.
C18_MethodNamesLayer ==
  capPc = "returned" =>
    /\ capLayer = "selectors" => capResult.method = "primary-selector"
    /\ capLayer = "pageScan" => capResult.method = "page-scan"
    /\ capLayer \in {"adobeScan", "fallback"} =>
         capResult.method \in {"heuristic-fallback", "error-fallback"}

\* C19: with a limit L >= 0 the scheduler tests the first min(L, N)
\* questions, in order; with no limit it tests all N.
C19_LimitHonoured ==
  schedPc = "partitioned" =>
    questionsToTest =
      IF options.limit = Undefined THEN questions
      ELSE SubSeq(questions, 1, Min(options.limit, Len(questions)))

\* C20: the awaited calls of a task operate on the session it launched and
\* on no other, its question is the one at its position of the tested list,
\* every returned result carries the question of the task it came from, and
\* no task changes the browser, page or input selector of the tester object.
C20_TaskIsolation ==
  /\ \A p \in DOMAIN tasks :
       /\ tasks[p].used \subseteq {p}
       /\ tasks[p].q = questionsToTest[p]
  /\ \A i \in 1..Len(allResults) :
       \E p \in DOMAIN tasks :
         tasks[p].pc = "fulfilled" /\ allResults[i].questionId = tasks[p].q
  /\ chatInputSelector = "null"
  /\ entry = "direct" => mainBrowser = "null" /\ mainPage = "null"
  /\ orchPc = "testing" => mainBrowser = "open" /\ mainPage = "open"

C20_Witness ==
  \E p \in DOMAIN tasks : \E q \in DOMAIN tasks :
    /\ p # q
    /\ BatchOf(p) = BatchOf(q)
    /\ tasks[p].pc = "close" /\ tasks[p].used = {p}
    /\ tasks[q].pc = "captureResponseParallel" /\ tasks[q].used = {q}
    /\ tasks[p].q # tasks[q].q

\* The fields of the response object besides text, capturedAt (not modelled)
\* and method; error is the error message of the fallback path.
ExtraFields(r) == DOMAIN r \ {"text", "method", "error"}

\* C21: a capture that went through the loop and the stability wait without
\* ever being ready still returns an extracted, non-error response, and that
\* response carries a flag telling it was captured after the timeout.
C21_TimeoutFlagged ==
  (Extracted /\ ~responseReady) =>
    /\ ~capResult.error
    /\ \E f \in ExtraFields(capResult) : capResult[f] = TRUE

SelfDescribing(f) ==
  /\ f.metadata.present
  /\ f.metadata.completedAt
  /\ f.metadata.totalQuestions = Len(f.results)

\* C22: every results file written carries a metadata block with a
\* timestamp and a total count equal to the number of results in the file.
C22_FilesSelfDescribing ==
  \A k \in 1..Len(savedFiles) : SelfDescribing(savedFiles[k])

\* C23: on a page that shows 'generating' during polls 1..k and the finished
\* answer from poll k+1 on, with every page read and timed wait succeeding,
\* the detector makes exactly k+1 polls: it is never ready before poll k+1,
\* it is ready at poll k+1, and it polls no more after that.
C23_ReadyOnFirstStablePoll ==
  (stableFrom > 0 /\ ~readThrew /\ capError = "none") =>
    /\ attemptCount <= stableFrom
    /\ responseReady => attemptCount = stableFrom
    /\ capPc \in {"settleWait", "extract", "returned"} =>
         responseReady /\ attemptCount = stableFrom

C23_Witness ==
  /\ stableFrom = 4
  /\ ~readThrew
  /\ capPc = "returned"
  /\ responseReady
  /\ attemptCount = 4

\* The elements of a selector's matches that pass isValidResponse.
ValidElements(sel) ==
  {k \in 1..Len(sel.els) : isValidResponse(sel.els[k])}

\* The selectors that produce a text: no throw, and a valid element.
Hits(c) ==
  {i \in 1..Len(c.selectors) :
     ~c.selectors[i].fail /\ ValidElements(c.selectors[i]) # {}}

\* The lines the full-page line scan keeps, none when its body read throws.
ValidLines(c) ==
  IF c.scanFails THEN {}
  ELSE {k \in 1..Len(c.lines) : isValidResponse(Trim(c.lines[k]))}

\* The lines the Adobe scan keeps, none when its body read throws.
AdobeLines(c) ==
  IF c.adobeFails THEN {}
  ELSE {k \in 1..Len(c.lines) :
          /\ Trim(c.lines[k]).len > 50
          /\ containsAdobeRecommendation(Trim(c.lines[k]))
          /\ ~isGeneratingMessage(Trim(c.lines[k]))}

Least(S) == CHOOSE x \in S : \A y \in S : x <= y

Greatest(S) == CHOOSE x \in S : \A y \in S : x >= y

\* C24: the extraction returns the text of the first layer that produces one.
\* With a selector that matches a valid element, the text is that of the last
\* valid element of the first such selector in listed order, whatever the
\* page lines hold; with none, a valid line of the page, and none is longer;
\* with no valid line either, the first Adobe line; and the text is one of the
\* marked fallback strings exactly when the three layers produced nothing.
C24_LayeredExtraction ==
  Extracted =>
    LET c == pageContent
        nothing == Hits(c) = {} /\ ValidLines(c) = {} /\ AdobeLines(c) = {}
    IN /\ Hits(c) # {} =>
            /\ capLayer = "selectors"
            /\ capResult.text =
                 Trim(c.selectors[Least(Hits(c))].els[
                        Greatest(ValidElements(c.selectors[Least(Hits(c))]))])
       /\ (Hits(c) = {} /\ ValidLines(c) # {}) =>
            /\ capLayer = "pageScan"
            /\ \E k \in ValidLines(c) :
                 /\ capResult.text = Trim(c.lines[k])
                 /\ \A j \in ValidLines(c) : c.lines[j].len <= c.lines[k].len
       /\ (Hits(c) = {} /\ ValidLines(c) = {} /\ AdobeLines(c) # {}) =>
            /\ capLayer = "adobeScan"
            /\ capResult.text = Trim(c.lines[Least(AdobeLines(c))])
       /\ nothing <=> capLayer = "fallback"
       /\ nothing <=> capResult.text.name \in FallbackNames

\* The first selector matched no valid element, the second matched two, the
\* page lines hold valid lines too, and the text of the last element of the
\* second selector was returned.
C24_Witness ==
  /\ Extracted
  /\ Len(pageContent.selectors) = 2
  /\ Hits(pageContent) = {2}
  /\ pageContent.selectors[1].els # << >>
  /\ ~pageContent.selectors[1].fail
  /\ Cardinality(ValidElements(pageContent.selectors[2])) = 2
  /\ ValidLines(pageContent) # {}
  /\ capResult.text = pageContent.selectors[2].els[2]
  /\ capLayer = "selectors"

\* C25: a parallel task whose Enter keypress has settled either goes on to
\* capture the response or, when the keypress threw, to a further submission
\* method (a submit button, a send button): a throwing keypress alone never
\* fails the question.
C25_SubmissionFallsThrough ==
  [][\A p \in DOMAIN tasks :
       (tasks[p].pc = "press" /\ tasks'[p].pc # "press") =>
          tasks'[p].pc \in {"captureResponseParallel", "clickSubmit",
                            "clickSend"}]_vars

\* C26: a parallel task whose input-readiness wait has settled, returned or
\* thrown, goes on to inject the question text.
C26_ReadinessWaitNonFatal ==
  [][\A p \in DOMAIN tasks :
       (tasks[p].pc = "waitForFunction" /\ tasks'[p].pc # "waitForFunction") =>
          tasks'[p].pc = "fill"]_vars

\* C27: in sequential mode a further question of the run begins (the reload
\* that opens an iteration after the first, or the first question of a later
\* batch) only after the inter-question delay has elapsed since the previous
\* question attempt.
C27_DelayAfterEveryAttempt ==
  (seqPc = "reload" \/ (seqPc = "testQuestion" /\ seqI = 0 /\ batchIndex > 0))
    => delayed

\* ceil(limit / products)
CeilDiv(limit, products) == (limit + products - 1) \div products

Selected == entry = "pipeline" /\ questionLimit >= 1

\* C28: with a limit L >= 1 and P products that each hold at least
\* ceil(L / P) questions, the selection holds exactly L questions.
C28_SelectionExact ==
  (/\ Selected
   /\ \A i \in DOMAIN productQuestions :
        Len(productQuestions[i]) >= CeilDiv(questionLimit, Len(productQuestions)))
    => Len(questions) = questionLimit

\* C29: when testQuestionsParallel returns, the two counters add up to the
\* number of questions tested, the returned list has one entry per counted
\* success, and no returned entry is error-shaped.
C29_CountersAddUp ==
  Returned =>
    /\ successCount + failCount = Len(questionsToTest)
    /\ Len(allResults) = successCount
    /\ \A k \in 1..Len(allResults) : ~allResults[k].error

\* A run of two batches has returned with successes and failures counted.
C29_Witness ==
  /\ Returned
  /\ Len(batches) >= 2
  /\ successCount > 0
  /\ failCount > 0
  /\ Len(allResults) = successCount

\* C30: when runAutomatedTesting has returned or thrown, the browser opened
\* by initialize() is no longer open, whether or not closing the page or the
\* context failed during the cleanup; it can only be left open by a throw of
\* its own close(), after the page and the context were dealt with.
C30_BrowserClosedOnExit ==
  (orchPc \in {"done", "failed"} /\ mainBrowser = "open") =>
    (mainPage # "open" /\ mainContext # "open")

====
